---- MODULE Spec2Model ----
(***************************************************************************)
(* Model of telegram/_giveaway.py: the Giveaway, GiveawayCreated,          *)
(* GiveawayWinners and GiveawayCompleted value objects, their constructors *)
(* and their de_json hydration.                                            *)
(*                                                                         *)
(* Python values are tagged records, so that a dict may hold raw and       *)
(* hydrated values side by side:                                           *)
(*   None -> [none |-> TRUE]     int -> [int |-> n]    str -> [str |-> s]  *)
(*   list -> [list |-> seq]      tuple -> [tuple |-> seq]                  *)
(*   dict -> [dict |-> f]        datetime -> [epoch |-> n, tz |-> s]       *)
(*   TelegramObject -> [cls |-> name, attrs |-> f]                         *)
(* A dict and an instance's attributes are functions from names to values. *)
(***************************************************************************)
EXTENDS Integers, Sequences, FiniteSets, TLC

VARIABLES
    pc,          \* position of the running call ("idle" when none runs)
    cls,         \* the class de_json / the constructor was called on
    bot,         \* the bot (context) argument of the call
    heap,        \* address -> dict: 1 is the caller's raw object, 2 the call's copy
    raw,         \* the caller's `data` argument: an address, 0 for None
    rawAtCall,   \* the caller's dict as it was when the call started
    data,        \* the local `data` of de_json: an address, 0 for None
    loc_tzinfo,  \* the local `loc_tzinfo` of de_json
    kwargs,      \* keyword arguments bound to __init__
    api_kwargs,  \* the api_kwargs argument of __init__
    self,        \* attributes of the instance under construction / returned
    ret,         \* what the call returned to the caller
    exc,         \* the error the call (or the last write) raised, "" for none
    log,         \* collaborators invoked by the running call, in order
    objs         \* instances the caller holds (equality specification)

vars == <<pc, cls, bot, heap, raw, rawAtCall, data, loc_tzinfo, kwargs,
          api_kwargs, self, ret, exc, log, objs>>

(***************************************************************************)
(* Bounds                                                                  *)
(***************************************************************************)
MaxList == 2
MaxObjs == 3

(***************************************************************************)
(* Values                                                                  *)
(***************************************************************************)
NoneV == [none |-> TRUE]
IntV(n) == [int |-> n]
StrV(s) == [str |-> s]
BoolV(b) == [bool |-> b]
ListV(s) == [list |-> s]
TupleV(s) == [tuple |-> s]
DictV(d) == [dict |-> d]
DtV(e, z) == [epoch |-> e, tz |-> z]
ObjV(c, a) == [cls |-> c, attrs |-> a]
RaiseV(e) == [raise |-> e]
Pending == [pending |-> TRUE]

IsNone(v) == v = NoneV
IsRaise(v) == "raise" \in DOMAIN v
IsObj(v) == "cls" \in DOMAIN v
IsList(v) == "list" \in DOMAIN v
IsTuple(v) == "tuple" \in DOMAIN v
IsDt(v) == "epoch" \in DOMAIN v

EmptyDict == [k \in {} |-> NoneV]

\* dict.get(key): the value, None when the key is missing
Get(d, k) == IF k \in DOMAIN d THEN d[k] ELSE NoneV

\* d[key] = value: replaces the value or adds the key
Put(d, k, v) == [x \in DOMAIN d \cup {k} |-> IF x = k THEN v ELSE d[x]]

Restrict(d, ks) == [x \in DOMAIN d \cap ks |-> d[x]]

SeqsUpTo(S, n) == UNION {[1..m -> S] : m \in 0..n}

(***************************************************************************)
(* Collaborators outside _giveaway.py                                      *)
(***************************************************************************)
\* the one key a nested kind's constructor cannot do without
NestedRequired(c) == IF c = "Message" THEN "message_id" ELSE "id"

\* Chat.de_json / User.de_json / Message.de_json: None for None, a frozen
\* instance for an object, an error when the mandatory key is missing
Nested_de_json(c, v, b) ==
    IF IsNone(v) THEN NoneV
    ELSE IF NestedRequired(c) \notin DOMAIN v.dict THEN RaiseV("SchemaViolation")
    ELSE ObjV(c, v.dict)

\* Chat.de_list / User.de_list: () for a missing or empty list, else the
\* hydrated elements one by one, in order
RECURSIVE DeListFrom(_, _, _, _)
DeListFrom(c, s, b, i) ==
    IF i > Len(s) THEN <<>>
    ELSE LET h == Nested_de_json(c, s[i], b)
             t == DeListFrom(c, s, b, i + 1)
         IN  <<h>> \o t

Nested_de_list(c, v, b) ==
    IF IsNone(v) \/ v.list = <<>> THEN TupleV(<<>>)
    ELSE LET hs == DeListFrom(c, v.list, b, 1)
         IN  IF \E i \in 1..Len(hs) : IsRaise(hs[i])
             THEN RaiseV("SchemaViolation")
             ELSE TupleV(hs)

\* telegram._utils.datetime.extract_tzinfo_from_defaults
extract_tzinfo_from_defaults(b) ==
    IF b.defaults_tz = "" THEN NoneV ELSE [tzinfo |-> b.defaults_tz]

\* telegram._utils.datetime.from_timestamp
from_timestamp(unixtime, tzinfo) ==
    IF IsNone(unixtime) THEN NoneV
    ELSE DtV(unixtime.int, IF IsNone(tzinfo) THEN "UTC" ELSE tzinfo.tzinfo)

\* telegram._utils.argumentparsing.parse_sequence_arg
parse_sequence_arg(arg) ==
    IF IsNone(arg) THEN TupleV(<<>>)
    ELSE IF IsList(arg) THEN TupleV(arg.list)
    ELSE arg

\* the builtin tuple(): a tuple of the elements in order; None is not iterable
tuple(v) ==
    IF IsTuple(v) \/ IsRaise(v) THEN v
    ELSE IF IsList(v) THEN TupleV(v.list)
    ELSE RaiseV("SchemaViolation")

\* TelegramObject._parse_data: None for None, else a shallow copy of the dict
\* at a fresh address; gives the new heap and the address
_parse_data(h, r) == IF r = 0 THEN <<h, 0>> ELSE <<(2 :> h[r]) @@ h, 2>>

\* TelegramObject.__init__: an unfrozen instance with no identity attributes
\* that keeps the unrecognized fields
TelegramObject___init__(akw) ==
    [_frozen |-> BoolV(FALSE), _id_attrs |-> TupleV(<<>>), api_kwargs |-> DictV(akw)]

\* TelegramObject._freeze
_freeze(s) == [s EXCEPT !["_frozen"] = BoolV(TRUE)]

Merge(f, g) == [x \in DOMAIN f \cup DOMAIN g |-> IF x \in DOMAIN g THEN g[x] ELSE f[x]]

\* a call of a collaborator: its result and the record of the call
Event(fn, b) == [fn |-> fn, bot |-> b]
NoBot == [defaults_tz |-> "n/a"]
Chat_de_json(v, b) == [val |-> Nested_de_json("Chat", v, b), ev |-> Event("Chat.de_json", b)]
Chat_de_list(v, b) == [val |-> Nested_de_list("Chat", v, b), ev |-> Event("Chat.de_list", b)]
User_de_list(v, b) == [val |-> Nested_de_list("User", v, b), ev |-> Event("User.de_list", b)]
Message_de_json(v, b) ==
    [val |-> Nested_de_json("Message", v, b), ev |-> Event("Message.de_json", b)]
Timestamp(unixtime, tzinfo) ==
    [val |-> from_timestamp(unixtime, tzinfo), ev |-> Event("from_timestamp", NoBot)]

(***************************************************************************)
(* class Giveaway                                                          *)
(***************************************************************************)
Giveaway___slots__ ==
    {"chats", "winners_selection_date", "winner_count", "only_new_members",
     "has_public_winners", "prize_description", "country_codes",
     "premium_subscription_month_count"}

\* parameters of __init__ without a default
Giveaway_required == {"chats", "winners_selection_date", "winner_count"}

\* parameters of __init__ (api_kwargs apart)
Giveaway_params ==
    Giveaway_required \cup
    {"only_new_members", "has_public_winners", "prize_description",
     "country_codes", "premium_subscription_month_count"}

\* mutant: country_codes assigned as given, without parse_sequence_arg
Giveaway_fields_RawCodes(kw) ==
    [chats |-> tuple(Get(kw, "chats")),
     winners_selection_date |-> Get(kw, "winners_selection_date"),
     winner_count |-> Get(kw, "winner_count"),
     only_new_members |-> Get(kw, "only_new_members"),
     has_public_winners |-> Get(kw, "has_public_winners"),
     prize_description |-> Get(kw, "prize_description"),
     country_codes |-> Get(kw, "country_codes"),
     premium_subscription_month_count |-> Get(kw, "premium_subscription_month_count")]

\* the field assignments of __init__; a parameter left out reads its default None
Giveaway_fields(kw) ==
    [chats |-> tuple(Get(kw, "chats")),
     winners_selection_date |-> Get(kw, "winners_selection_date"),
     winner_count |-> Get(kw, "winner_count"),
     only_new_members |-> Get(kw, "only_new_members"),
     has_public_winners |-> Get(kw, "has_public_winners"),
     prize_description |-> Get(kw, "prize_description"),
     country_codes |-> parse_sequence_arg(Get(kw, "country_codes")),
     premium_subscription_month_count |-> Get(kw, "premium_subscription_month_count")]

Giveaway_id_attrs(s) ==
    TupleV(<<s.chats, s.winners_selection_date, s.winner_count>>)

\* tuple(Chat.de_list(data.get("chats"), bot))
Giveaway_chats(d, b) ==
    LET r == Chat_de_list(Get(d, "chats"), b) IN [r EXCEPT !.val = tuple(@)]

\* mutant: the timezone of the bot is not handed on
Giveaway_date_NoTz(d, tz) == Timestamp(Get(d, "winners_selection_date"), NoneV)

\* from_timestamp(data.get("winners_selection_date"), tzinfo=loc_tzinfo)
Giveaway_date(d, tz) == Timestamp(Get(d, "winners_selection_date"), tz)

(***************************************************************************)
(* class GiveawayCreated                                                   *)
(***************************************************************************)
GiveawayCreated___slots__ == {}

(***************************************************************************)
(* class GiveawayWinners                                                   *)
(***************************************************************************)
GiveawayWinners___slots__ ==
    {"chat", "giveaway_message_id", "winners_selection_date", "winner_count",
     "winners", "additional_chat_count", "premium_subscription_month_count",
     "unclaimed_prize_count", "only_new_members", "was_refunded",
     "prize_description"}

GiveawayWinners_required ==
    {"chat", "giveaway_message_id", "winners_selection_date", "winner_count",
     "winners"}

GiveawayWinners_params ==
    GiveawayWinners_required \cup
    {"additional_chat_count", "premium_subscription_month_count",
     "unclaimed_prize_count", "only_new_members", "was_refunded",
     "prize_description"}

GiveawayWinners_fields(kw) ==
    [chat |-> Get(kw, "chat"),
     giveaway_message_id |-> Get(kw, "giveaway_message_id"),
     winners_selection_date |-> Get(kw, "winners_selection_date"),
     winner_count |-> Get(kw, "winner_count"),
     winners |-> tuple(Get(kw, "winners")),
     additional_chat_count |-> Get(kw, "additional_chat_count"),
     premium_subscription_month_count |-> Get(kw, "premium_subscription_month_count"),
     unclaimed_prize_count |-> Get(kw, "unclaimed_prize_count"),
     only_new_members |-> Get(kw, "only_new_members"),
     was_refunded |-> Get(kw, "was_refunded"),
     prize_description |-> Get(kw, "prize_description")]

\* mutant: the tuple without winners
GiveawayWinners_id_attrs_NoWinners(s) ==
    TupleV(<<s.chat, s.giveaway_message_id, s.winners_selection_date, s.winner_count>>)

GiveawayWinners_id_attrs(s) ==
    TupleV(<<s.chat, s.giveaway_message_id, s.winners_selection_date,
             s.winner_count, s.winners>>)

\* Chat.de_json(data.get("chat"), bot)
GiveawayWinners_chat(d, b) == Chat_de_json(Get(d, "chat"), b)

\* mutant: the list is read under a misspelt key
GiveawayWinners_winners_Typo(d, b) ==
    LET r == User_de_list(Get(d, "winner"), b) IN [r EXCEPT !.val = tuple(@)]

\* tuple(User.de_list(data.get("winners"), bot))
GiveawayWinners_winners(d, b) ==
    LET r == User_de_list(Get(d, "winners"), b) IN [r EXCEPT !.val = tuple(@)]

\* from_timestamp(data.get("winners_selection_date"), tzinfo=loc_tzinfo)
GiveawayWinners_date(d, tz) == Timestamp(Get(d, "winners_selection_date"), tz)

(***************************************************************************)
(* class GiveawayCompleted                                                 *)
(***************************************************************************)
GiveawayCompleted___slots__ ==
    {"winner_count", "unclaimed_prize_count", "giveaway_message"}

GiveawayCompleted_required == {"winner_count"}

\* mutant: unclaimed_prize_count is no parameter
GiveawayCompleted_params_Short == {"winner_count", "giveaway_message"}

GiveawayCompleted_params ==
    GiveawayCompleted_required \cup {"unclaimed_prize_count", "giveaway_message"}

GiveawayCompleted_fields(kw) ==
    [winner_count |-> Get(kw, "winner_count"),
     unclaimed_prize_count |-> Get(kw, "unclaimed_prize_count"),
     giveaway_message |-> Get(kw, "giveaway_message")]

GiveawayCompleted_id_attrs(s) ==
    TupleV(<<s.winner_count, s.unclaimed_prize_count>>)

\* Message.de_json(data.get("giveaway_message"), bot)
GiveawayCompleted_message(d, b) == Message_de_json(Get(d, "giveaway_message"), b)

(***************************************************************************)
(* Dispatch on the class                                                   *)
(***************************************************************************)
Classes == {"Giveaway", "GiveawayCreated", "GiveawayWinners", "GiveawayCompleted"}

Slots(c) ==
    CASE c = "Giveaway" -> Giveaway___slots__
      [] c = "GiveawayCreated" -> GiveawayCreated___slots__
      [] c = "GiveawayWinners" -> GiveawayWinners___slots__
      [] c = "GiveawayCompleted" -> GiveawayCompleted___slots__

Params(c) ==
    CASE c = "Giveaway" -> Giveaway_params
      [] c = "GiveawayCreated" -> {}
      [] c = "GiveawayWinners" -> GiveawayWinners_params
      [] c = "GiveawayCompleted" -> GiveawayCompleted_params

Required(c) ==
    CASE c = "Giveaway" -> Giveaway_required
      [] c = "GiveawayCreated" -> {}
      [] c = "GiveawayWinners" -> GiveawayWinners_required
      [] c = "GiveawayCompleted" -> GiveawayCompleted_required

(***************************************************************************)
(* Inputs of the calls                                                     *)
(***************************************************************************)
Absent == [absent |-> TRUE]
Opt(S) == S \cup {Absent}

\* the dict holding the pairs <<key, value>> of ps whose value is not Absent
MkDict(ps) ==
    LET present == {i \in 1..Len(ps) : ps[i][2] # Absent}
    IN  [k \in {ps[i][1] : i \in present} |->
            ps[CHOOSE i \in present : ps[i][1] = k][2]]

Bots == {[defaults_tz |-> ""], [defaults_tz |-> "CET"]}
RawChats ==
    {DictV([id |-> IntV(1), type |-> StrV("group")]),
     DictV([id |-> IntV(2), type |-> StrV("group")]),
     DictV([type |-> StrV("group")])}

RawUsers ==
    {DictV([id |-> IntV(10)]), DictV([id |-> IntV(20)]),
     DictV([first_name |-> StrV("x")])}

RawMessages ==
    {DictV([message_id |-> IntV(5)]), DictV([text |-> StrV("m")])}

RawLists(S) == {ListV(q) : q \in SeqsUpTo(S, MaxList)}

Epochs == {IntV(1700000000)}

GiveawayRaws ==
    {MkDict(<< <<"chats", a>>, <<"winners_selection_date", b>>,
               <<"winner_count", c>>, <<"prize_description", d>>,
               <<"country_codes", e>>, <<"future_field", f>> >>) :
        a \in Opt(RawLists(RawChats)), b \in Opt(Epochs), c \in Opt({IntV(3)}),
        d \in Opt({StrV("a")}), e \in Opt(RawLists({StrV("DE"), StrV("AT")})),
        f \in Opt({StrV("x")})}

GiveawayCreatedRaws ==
    {MkDict(<< <<"future_field", f>> >>) : f \in Opt({StrV("x")})}

GiveawayWinnersRaws ==
    {MkDict(<< <<"chat", a>>, <<"giveaway_message_id", b>>,
               <<"winners_selection_date", c>>, <<"winner_count", d>>,
               <<"winners", e>>, <<"future_field", f>> >>) :
        a \in Opt(RawChats), b \in Opt({IntV(7)}), c \in Opt(Epochs),
        d \in Opt({IntV(3)}), e \in Opt(RawLists(RawUsers)),
        f \in Opt({StrV("x")})}

GiveawayCompletedRaws ==
    {MkDict(<< <<"winner_count", a>>, <<"unclaimed_prize_count", b>>,
               <<"giveaway_message", c>>, <<"future_field", d>> >>) :
        a \in Opt({IntV(3)}), b \in Opt({IntV(1)}), c \in Opt(RawMessages),
        d \in Opt({StrV("x")})}

Raws(c) ==
    CASE c = "Giveaway" -> GiveawayRaws
      [] c = "GiveawayCreated" -> GiveawayCreatedRaws
      [] c = "GiveawayWinners" -> GiveawayWinnersRaws
      [] c = "GiveawayCompleted" -> GiveawayCompletedRaws

\* keyword arguments of a direct construction
Chat1 == ObjV("Chat", [id |-> IntV(1), type |-> StrV("group")])
User1 == ObjV("User", [id |-> IntV(10)])
User2 == ObjV("User", [id |-> IntV(20)])
Date1 == DtV(1700000000, "UTC")

Kwargs(c) ==
    CASE c = "Giveaway" ->
            {MkDict(<< <<"chats", a>>, <<"winners_selection_date", Date1>>,
                       <<"winner_count", b>>, <<"country_codes", e>> >>) :
                a \in {ListV(<<Chat1>>), TupleV(<<>>), NoneV},
                b \in Opt({IntV(3)}),
                e \in Opt({NoneV, ListV(<<>>), ListV(<<StrV("DE"), StrV("AT")>>)})}
      [] c = "GiveawayCreated" -> {EmptyDict}
      [] c = "GiveawayWinners" ->
            {MkDict(<< <<"chat", Chat1>>, <<"giveaway_message_id", IntV(7)>>,
                       <<"winners_selection_date", Date1>>, <<"winner_count", b>>,
                       <<"winners", e>> >>) :
                b \in Opt({IntV(3)}),
                e \in {ListV(<<User1, User2>>), TupleV(<<User2, User1>>)}}
      [] c = "GiveawayCompleted" ->
            {MkDict(<< <<"winner_count", a>>, <<"unclaimed_prize_count", b>> >>) :
                a \in Opt({IntV(3)}), b \in Opt({IntV(1)})}

(***************************************************************************)
(* The calls                                                               *)
(***************************************************************************)
Init ==
    /\ pc = "idle"
    /\ cls = "Giveaway"
    /\ bot = NoBot
    /\ heap = <<>>
    /\ raw = 0
    /\ rawAtCall = EmptyDict
    /\ data = 0
    /\ loc_tzinfo = NoneV
    /\ kwargs = EmptyDict
    /\ api_kwargs = EmptyDict
    /\ self = NoneV
    /\ ret = Pending
    /\ exc = ""
    /\ log = <<>>
    /\ objs = {}

\* the caller calls c.de_json(d, b) with a dict of its own
CallDeJson(c, d, b) ==
    /\ pc = "idle"
    /\ pc' = "parse"
    /\ cls' = c
    /\ bot' = b
    /\ heap' = (1 :> d)
    /\ raw' = 1
    /\ rawAtCall' = d
    /\ data' = 1
    /\ UNCHANGED <<loc_tzinfo, kwargs, api_kwargs, self, ret, exc, log, objs>>

\* the caller calls c.de_json(None, b)
CallDeJsonNone(c, b) ==
    /\ pc = "idle"
    /\ pc' = "parse"
    /\ cls' = c
    /\ bot' = b
    /\ UNCHANGED <<heap, raw, rawAtCall, data, loc_tzinfo, kwargs, api_kwargs,
                   self, ret, exc, log, objs>>

\* the caller constructs c(**kw)
CallInit(c, kw) ==
    /\ pc = "idle"
    /\ pc' = "bind"
    /\ cls' = c
    /\ kwargs' = kw
    /\ UNCHANGED <<bot, heap, raw, rawAtCall, data, loc_tzinfo, api_kwargs,
                   self, ret, exc, log, objs>>

\* an error leaves the call: nothing is returned, the instance under
\* construction is dropped
Raise(e) ==
    /\ pc' = "raised"
    /\ exc' = e
    /\ self' = NoneV
    /\ UNCHANGED <<cls, bot, raw, rawAtCall, data, loc_tzinfo, kwargs,
                   api_kwargs, ret, objs>>

\* data = cls._parse_data(data)
ParseData(next) ==
    /\ pc = "parse"
    /\ heap' = _parse_data(heap, data)[1]
    /\ data' = _parse_data(heap, data)[2]
    /\ log' = Append(log, Event("_parse_data", NoBot))
    /\ pc' = next
    /\ UNCHANGED <<cls, bot, raw, rawAtCall, loc_tzinfo, kwargs, api_kwargs,
                   self, ret, exc, objs>>

\* if data is None: return None
CheckNone(next) ==
    /\ pc = "check"
    /\ IF data = 0
       THEN pc' = "returned" /\ ret' = NoneV
       ELSE pc' = next /\ ret' = ret
    /\ UNCHANGED <<cls, bot, heap, raw, rawAtCall, data, loc_tzinfo, kwargs,
                   api_kwargs, self, exc, log, objs>>

\* loc_tzinfo = extract_tzinfo_from_defaults(bot)
ExtractTz(next) ==
    /\ pc = "tz"
    /\ loc_tzinfo' = extract_tzinfo_from_defaults(bot)
    /\ log' = Append(log, Event("extract_tzinfo_from_defaults", bot))
    /\ pc' = next
    /\ UNCHANGED <<cls, bot, heap, raw, rawAtCall, data, kwargs, api_kwargs,
                   self, ret, exc, objs>>

\* data[key] = r.val, where evaluating the right-hand side made the call
\* r.ev and may have raised
SetItem(key, r, next) ==
    /\ log' = Append(log, r.ev)
    /\ IF IsRaise(r.val)
       THEN Raise(r.val.raise) /\ heap' = heap
       ELSE /\ heap' = [heap EXCEPT ![data] = Put(@, key, r.val)]
            /\ pc' = next
            /\ UNCHANGED <<cls, bot, raw, rawAtCall, data, loc_tzinfo, kwargs,
                           api_kwargs, self, ret, exc, objs>>

\* TelegramObject.de_json(data, bot): the declared keys become the keyword
\* arguments of cls(...), the others its api_kwargs
TelegramObject_de_json ==
    /\ pc = "super"
    /\ kwargs' = Restrict(heap[data], Params(cls))
    /\ api_kwargs' = Restrict(heap[data], DOMAIN heap[data] \ Params(cls))
    /\ log' = Append(log, Event("TelegramObject.de_json", bot))
    /\ pc' = "bind"
    /\ UNCHANGED <<cls, bot, heap, raw, rawAtCall, data, loc_tzinfo, self, ret,
                   exc, objs>>

\* binding the keyword arguments to the signature of cls.__init__: a
\* parameter without a default must be given
Bind ==
    /\ pc = "bind"
    /\ IF Required(cls) \subseteq DOMAIN kwargs
       THEN /\ pc' = "init"
            /\ UNCHANGED <<cls, bot, raw, rawAtCall, data, loc_tzinfo, kwargs,
                           api_kwargs, self, ret, exc, objs>>
       ELSE Raise("SchemaViolation")
    /\ UNCHANGED <<heap, log>>

\* super().__init__(api_kwargs=api_kwargs)
InitSuper(next) ==
    /\ pc = "init"
    /\ self' = TelegramObject___init__(api_kwargs)
    /\ log' = Append(log, Event("__init__", NoBot))
    /\ pc' = next
    /\ UNCHANGED <<cls, bot, heap, raw, rawAtCall, data, loc_tzinfo, kwargs,
                   api_kwargs, ret, exc, objs>>

\* self.<field> = ... for every field; an assignment whose right-hand side
\* raises ends the constructor
InitFields(fs) ==
    /\ pc = "fields"
    /\ IF \E k \in DOMAIN fs : IsRaise(fs[k])
       THEN Raise("SchemaViolation")
       ELSE /\ self' = Merge(self, fs)
            /\ pc' = "id_attrs"
            /\ UNCHANGED <<cls, bot, raw, rawAtCall, data, loc_tzinfo, kwargs,
                           api_kwargs, ret, exc, objs>>
    /\ UNCHANGED <<heap, log>>

\* self._id_attrs = (...)
InitIdAttrs(ids) ==
    /\ pc = "id_attrs"
    /\ self' = [self EXCEPT !["_id_attrs"] = ids]
    /\ pc' = "freeze"
    /\ UNCHANGED <<cls, bot, heap, raw, rawAtCall, data, loc_tzinfo, kwargs,
                   api_kwargs, ret, exc, log, objs>>

\* self._freeze()
Freeze ==
    /\ pc = "freeze"
    /\ self' = _freeze(self)
    /\ pc' = "constructed"
    /\ UNCHANGED <<cls, bot, heap, raw, rawAtCall, data, loc_tzinfo, kwargs,
                   api_kwargs, ret, exc, log, objs>>

(***************************************************************************)
(* Giveaway.de_json and Giveaway.__init__, statement by statement          *)
(***************************************************************************)
\* mutant: de_json works on the caller's dict itself
Giveaway_de_json_parse_NoCopy ==
    /\ cls = "Giveaway" /\ pc = "parse"
    /\ log' = Append(log, Event("_parse_data", NoBot))
    /\ pc' = "check"
    /\ UNCHANGED <<cls, bot, heap, raw, rawAtCall, data, loc_tzinfo, kwargs,
                   api_kwargs, self, ret, exc, objs>>

\* mutant: no early return for None
Giveaway_de_json_check_NoReturn ==
    /\ cls = "Giveaway" /\ pc = "check"
    /\ pc' = "tz"
    /\ UNCHANGED <<cls, bot, heap, raw, rawAtCall, data, loc_tzinfo, kwargs,
                   api_kwargs, self, ret, exc, log, objs>>

Giveaway_de_json_parse == cls = "Giveaway" /\ ParseData("check")
Giveaway_de_json_check == cls = "Giveaway" /\ CheckNone("tz")
Giveaway_de_json_tz == cls = "Giveaway" /\ ExtractTz("chats")
Giveaway_de_json_chats ==
    cls = "Giveaway" /\ pc = "chats"
    /\ SetItem("chats", Giveaway_chats(heap[data], bot), "date")
Giveaway_de_json_date ==
    cls = "Giveaway" /\ pc = "date"
    /\ SetItem("winners_selection_date", Giveaway_date(heap[data], loc_tzinfo), "super")
Giveaway_de_json_super == cls = "Giveaway" /\ TelegramObject_de_json
Giveaway_init_super == cls = "Giveaway" /\ InitSuper("fields")
Giveaway_init_fields == cls = "Giveaway" /\ InitFields(Giveaway_fields(kwargs))
Giveaway_init_id_attrs == cls = "Giveaway" /\ InitIdAttrs(Giveaway_id_attrs(self))
Giveaway_init_freeze == cls = "Giveaway" /\ Freeze

(***************************************************************************)
(* GiveawayCreated: de_json and __init__ are those of TelegramObject       *)
(***************************************************************************)
GiveawayCreated_de_json_parse == cls = "GiveawayCreated" /\ ParseData("check")
GiveawayCreated_de_json_check == cls = "GiveawayCreated" /\ CheckNone("super")
GiveawayCreated_de_json_super == cls = "GiveawayCreated" /\ TelegramObject_de_json
GiveawayCreated_init == cls = "GiveawayCreated" /\ InitSuper("constructed")

(***************************************************************************)
(* GiveawayWinners.de_json and GiveawayWinners.__init__                    *)
(***************************************************************************)
GiveawayWinners_de_json_parse == cls = "GiveawayWinners" /\ ParseData("check")
GiveawayWinners_de_json_check == cls = "GiveawayWinners" /\ CheckNone("tz")
GiveawayWinners_de_json_tz == cls = "GiveawayWinners" /\ ExtractTz("chat")
GiveawayWinners_de_json_chat ==
    cls = "GiveawayWinners" /\ pc = "chat"
    /\ SetItem("chat", GiveawayWinners_chat(heap[data], bot), "winners")
GiveawayWinners_de_json_winners ==
    cls = "GiveawayWinners" /\ pc = "winners"
    /\ SetItem("winners", GiveawayWinners_winners(heap[data], bot), "date")
GiveawayWinners_de_json_date ==
    cls = "GiveawayWinners" /\ pc = "date"
    /\ SetItem("winners_selection_date",
               GiveawayWinners_date(heap[data], loc_tzinfo), "super")
GiveawayWinners_de_json_super == cls = "GiveawayWinners" /\ TelegramObject_de_json
GiveawayWinners_init_super == cls = "GiveawayWinners" /\ InitSuper("fields")
GiveawayWinners_init_fields ==
    cls = "GiveawayWinners" /\ InitFields(GiveawayWinners_fields(kwargs))
GiveawayWinners_init_id_attrs ==
    cls = "GiveawayWinners" /\ InitIdAttrs(GiveawayWinners_id_attrs(self))
GiveawayWinners_init_freeze == cls = "GiveawayWinners" /\ Freeze

(***************************************************************************)
(* GiveawayCompleted.de_json and GiveawayCompleted.__init__                *)
(***************************************************************************)
GiveawayCompleted_de_json_parse == cls = "GiveawayCompleted" /\ ParseData("check")
\* mutant: the instance is constructed before the message is hydrated
GiveawayCompleted_de_json_check_Early == cls = "GiveawayCompleted" /\ CheckNone("super")

GiveawayCompleted_de_json_check == cls = "GiveawayCompleted" /\ CheckNone("message")
GiveawayCompleted_de_json_message ==
    cls = "GiveawayCompleted" /\ pc = "message"
    /\ SetItem("giveaway_message", GiveawayCompleted_message(heap[data], bot), "super")
GiveawayCompleted_de_json_super == cls = "GiveawayCompleted" /\ TelegramObject_de_json
GiveawayCompleted_init_super == cls = "GiveawayCompleted" /\ InitSuper("fields")
GiveawayCompleted_init_fields ==
    cls = "GiveawayCompleted" /\ InitFields(GiveawayCompleted_fields(kwargs))
GiveawayCompleted_init_id_attrs ==
    cls = "GiveawayCompleted" /\ InitIdAttrs(GiveawayCompleted_id_attrs(self))
GiveawayCompleted_init_freeze == cls = "GiveawayCompleted" /\ Freeze

(***************************************************************************)
(* The caller                                                              *)
(***************************************************************************)
\* the constructor returns the instance to the caller
Return ==
    /\ pc = "constructed"
    /\ ret' = ObjV(cls, self)
    /\ pc' = "returned"
    /\ UNCHANGED <<cls, bot, heap, raw, rawAtCall, data, loc_tzinfo, kwargs,
                   api_kwargs, self, exc, log, objs>>

\* the attributes the caller tries to write
WriteKeys(c) == {"api_kwargs"} \cup (Slots(c) \cap {"winner_count"})

\* TelegramObject.__setattr__ on the returned instance: rejected once frozen
SetAttr(k, v) ==
    /\ pc = "returned"
    /\ IsObj(ret)
    /\ k \in WriteKeys(cls)
    /\ IF self["_frozen"] = BoolV(TRUE)
       THEN exc' = "FrozenStateViolation" /\ self' = self /\ ret' = ret
       ELSE exc' = "" /\ self' = Put(self, k, v) /\ ret' = ObjV(cls, Put(self, k, v))
    /\ UNCHANGED <<pc, cls, bot, heap, raw, rawAtCall, data, loc_tzinfo, kwargs,
                   api_kwargs, log, objs>>

\* the caller is done with the call and its result
Reset ==
    /\ pc \in {"returned", "raised"}
    /\ pc' = "idle"
    /\ cls' = "Giveaway"
    /\ bot' = NoBot
    /\ heap' = <<>>
    /\ raw' = 0
    /\ rawAtCall' = EmptyDict
    /\ data' = 0
    /\ loc_tzinfo' = NoneV
    /\ kwargs' = EmptyDict
    /\ api_kwargs' = EmptyDict
    /\ self' = NoneV
    /\ ret' = Pending
    /\ exc' = ""
    /\ log' = <<>>
    /\ UNCHANGED objs

Next ==
    \/ pc = "idle" /\ \E c \in Classes, b \in Bots : \E d \in Raws(c) : CallDeJson(c, d, b)
    \/ pc = "idle" /\ \E c \in Classes, b \in Bots : CallDeJsonNone(c, b)
    \/ pc = "idle" /\ \E c \in Classes : \E kw \in Kwargs(c) : CallInit(c, kw)
    \/ Giveaway_de_json_parse
    \/ Giveaway_de_json_check
    \/ Giveaway_de_json_tz
    \/ Giveaway_de_json_chats
    \/ Giveaway_de_json_date
    \/ Giveaway_de_json_super
    \/ Giveaway_init_super
    \/ Giveaway_init_fields
    \/ Giveaway_init_id_attrs
    \/ Giveaway_init_freeze
    \/ GiveawayCreated_de_json_parse
    \/ GiveawayCreated_de_json_check
    \/ GiveawayCreated_de_json_super
    \/ GiveawayCreated_init
    \/ GiveawayWinners_de_json_parse
    \/ GiveawayWinners_de_json_check
    \/ GiveawayWinners_de_json_tz
    \/ GiveawayWinners_de_json_chat
    \/ GiveawayWinners_de_json_winners
    \/ GiveawayWinners_de_json_date
    \/ GiveawayWinners_de_json_super
    \/ GiveawayWinners_init_super
    \/ GiveawayWinners_init_fields
    \/ GiveawayWinners_init_id_attrs
    \/ GiveawayWinners_init_freeze
    \/ GiveawayCompleted_de_json_parse
    \/ GiveawayCompleted_de_json_check
    \/ GiveawayCompleted_de_json_message
    \/ GiveawayCompleted_de_json_super
    \/ GiveawayCompleted_init_super
    \/ GiveawayCompleted_init_fields
    \/ GiveawayCompleted_init_id_attrs
    \/ GiveawayCompleted_init_freeze
    \/ Bind
    \/ Return
    \/ pc = "returned" /\ \E k \in {"api_kwargs", "winner_count"} : SetAttr(k, NoneV)
    \/ Reset

Spec == Init /\ [][Next]_vars

(***************************************************************************)
(* A whole call as a function of its arguments                             *)
(***************************************************************************)
Fields(c, kw) ==
    CASE c = "Giveaway" -> Giveaway_fields(kw)
      [] c = "GiveawayCreated" -> EmptyDict
      [] c = "GiveawayWinners" -> GiveawayWinners_fields(kw)
      [] c = "GiveawayCompleted" -> GiveawayCompleted_fields(kw)

IdAttrs(c, s) ==
    CASE c = "Giveaway" -> Giveaway_id_attrs(s)
      [] c = "GiveawayCreated" -> TupleV(<<>>)
      [] c = "GiveawayWinners" -> GiveawayWinners_id_attrs(s)
      [] c = "GiveawayCompleted" -> GiveawayCompleted_id_attrs(s)

\* cls(**kw, api_kwargs=akw): the instance, or the error raised
New(c, kw, akw) ==
    IF ~(Required(c) \subseteq DOMAIN kw) THEN RaiseV("SchemaViolation")
    ELSE LET fs == Fields(c, kw)
             s0 == Merge(TelegramObject___init__(akw), fs)
         IN  IF \E k \in DOMAIN fs : IsRaise(fs[k]) THEN RaiseV("SchemaViolation")
             ELSE IF c = "GiveawayCreated" THEN ObjV(c, s0)
             ELSE ObjV(c, _freeze([s0 EXCEPT !["_id_attrs"] = IdAttrs(c, s0)]))

\* d after data[k] = v, or the error when v is one or d already is
Then(d, k, v) ==
    IF IsRaise(d) THEN d ELSE IF IsRaise(v) THEN v ELSE Put(d, k, v)

\* the copy of the raw dict d after the in-place replacements of cls.de_json
Hydrated(c, d, b) ==
    CASE c = "Giveaway" ->
            LET d1 == Then(d, "chats", Giveaway_chats(d, b).val)
            IN  Then(d1, "winners_selection_date",
                     Giveaway_date(d, extract_tzinfo_from_defaults(b)).val)
      [] c = "GiveawayCreated" -> d
      [] c = "GiveawayWinners" ->
            LET d1 == Then(d, "chat", GiveawayWinners_chat(d, b).val)
                d2 == Then(d1, "winners", GiveawayWinners_winners(d, b).val)
            IN  Then(d2, "winners_selection_date",
                     GiveawayWinners_date(d, extract_tzinfo_from_defaults(b)).val)
      [] c = "GiveawayCompleted" ->
            Then(d, "giveaway_message", GiveawayCompleted_message(d, b).val)

\* cls.de_json(d, b) for a dict d: the instance, or the error raised
de_json(c, d, b) ==
    LET h == Hydrated(c, d, b)
    IN  IF IsRaise(h) THEN h
        ELSE New(c, Restrict(h, Params(c)), Restrict(h, DOMAIN h \ Params(c)))

(***************************************************************************)
(* Equality                                                                *)
(***************************************************************************)
\* == on the values an identity attribute can hold: tuples element by
\* element, Chat / User / Message by their own identity, datetimes by the
\* instant, anything else by value
RECURSIVE ValEq(_, _)
ValEq(x, y) ==
    IF IsTuple(x) /\ IsTuple(y)
    THEN /\ Len(x.tuple) = Len(y.tuple)
         /\ \A i \in 1..Len(x.tuple) : ValEq(x.tuple[i], y.tuple[i])
    ELSE IF IsObj(x) /\ IsObj(y)
    THEN /\ x.cls = y.cls
         /\ x.attrs[NestedRequired(x.cls)] = y.attrs[NestedRequired(y.cls)]
    ELSE IF IsDt(x) /\ IsDt(y)
    THEN x.epoch = y.epoch
    ELSE x = y

\* TelegramObject.__eq__
Eq(a, b) == a.cls = b.cls /\ ValEq(a.attrs["_id_attrs"], b.attrs["_id_attrs"])

(***************************************************************************)
(* The caller hydrating objects and comparing them                         *)
(***************************************************************************)
Chat1b == DictV([id |-> IntV(1), type |-> StrV("channel")])
RawChat1 == DictV([id |-> IntV(1), type |-> StrV("group")])
RawChat2 == DictV([id |-> IntV(2), type |-> StrV("group")])
RawUser1 == DictV([id |-> IntV(10)])
RawUser2 == DictV([id |-> IntV(20)])
RawMessage1 == DictV([message_id |-> IntV(5)])

\* d and each d with one key changed (Absent: removed)
Variants(d, changes) ==
    {d} \cup {IF ch[2] = Absent THEN Restrict(d, DOMAIN d \ {ch[1]})
              ELSE Put(d, ch[1], ch[2]) : ch \in changes}

EqGiveawayRaws ==
    Variants([chats |-> ListV(<<RawChat1>>), winners_selection_date |-> IntV(1700000000),
              winner_count |-> IntV(3), prize_description |-> StrV("a")],
             {<<"chats", ListV(<<RawChat2>>)>>, <<"chats", ListV(<<Chat1b>>)>>,
              <<"winners_selection_date", IntV(1700000001)>>,
              <<"winner_count", IntV(4)>>,
              <<"prize_description", StrV("b")>>})

EqGiveawayWinnersRaws ==
    Variants([chat |-> RawChat1, giveaway_message_id |-> IntV(7),
              winners_selection_date |-> IntV(1700000000), winner_count |-> IntV(3),
              winners |-> ListV(<<RawUser1, RawUser2>>), prize_description |-> StrV("a")],
             {<<"chat", RawChat2>>,
              <<"giveaway_message_id", IntV(8)>>,
              <<"winners_selection_date", IntV(1700000001)>>,
              <<"winner_count", IntV(4)>>,
              <<"winners", ListV(<<RawUser2, RawUser1>>)>>,
              <<"prize_description", StrV("b")>>})

EqGiveawayCompletedRaws ==
    Variants([winner_count |-> IntV(3), unclaimed_prize_count |-> IntV(1)],
             {<<"winner_count", IntV(4)>>,
              <<"unclaimed_prize_count", IntV(2)>>,
              <<"unclaimed_prize_count", Absent>>,
              <<"giveaway_message", RawMessage1>>})

EqRaws(c) ==
    CASE c = "Giveaway" -> EqGiveawayRaws
      [] c = "GiveawayWinners" -> EqGiveawayWinnersRaws
      [] c = "GiveawayCompleted" -> EqGiveawayCompletedRaws

\* the caller hydrates one more object and keeps it
Hydrate(c, d, b) ==
    /\ Cardinality(objs) < MaxObjs
    /\ LET o == de_json(c, d, b)
       IN  IsObj(o) /\ objs' = objs \cup {o}
    /\ UNCHANGED <<pc, cls, bot, heap, raw, rawAtCall, data, loc_tzinfo, kwargs,
                   api_kwargs, self, ret, exc, log>>

\* the caller lets go of an object
Forget(o) ==
    /\ o \in objs
    /\ objs' = objs \ {o}
    /\ UNCHANGED <<pc, cls, bot, heap, raw, rawAtCall, data, loc_tzinfo, kwargs,
                   api_kwargs, self, ret, exc, log>>

NextEq ==
    \/ \E c \in {"Giveaway", "GiveawayWinners", "GiveawayCompleted"}, b \in Bots :
          \E d \in EqRaws(c) : Hydrate(c, d, b)
    \/ \E o \in objs : Forget(o)

EqSpec == Init /\ [][NextEq]_vars

(***************************************************************************)
(* Properties                                                              *)
(***************************************************************************)
\* the call went through de_json with a dict / with None / is a construction
ViaDeJson == raw = 1
Returned == pc = "returned" /\ IsObj(ret)
Fns == [i \in 1..Len(log) |-> log[i].fn]

\* The statement-by-statement call and the call as a function agree on what
\* the constructor hands back and on whether the call raises.
StepsAgreeWithFunction ==
    /\ (pc = "constructed" /\ ViaDeJson) => ObjV(cls, self) = de_json(cls, rawAtCall, bot)
    /\ (pc = "raised" /\ ViaDeJson) => IsRaise(de_json(cls, rawAtCall, bot))
    /\ (pc = "constructed" /\ raw = 0) => ObjV(cls, self) = New(cls, kwargs, api_kwargs)

\* the fields the claim names as identity attributes, and two instances
\* agreeing on all of them
C1_IdentityFields(c) ==
    CASE c = "Giveaway" -> {"chats", "winners_selection_date", "winner_count"}
      [] c = "GiveawayWinners" ->
            {"chat", "giveaway_message_id", "winners_selection_date",
             "winner_count", "winners"}
      [] c = "GiveawayCompleted" -> {"winner_count", "unclaimed_prize_count"}

C1_SameIdentity(a, b) ==
    \A k \in C1_IdentityFields(a.cls) : ValEq(a.attrs[k], b.attrs[k])

\* C1: two instances of the same kind are equal exactly when their identity
\* attributes (Giveaway: chats, winners_selection_date, winner_count;
\* GiveawayWinners: chat, giveaway_message_id, winners_selection_date,
\* winner_count, winners; GiveawayCompleted: winner_count,
\* unclaimed_prize_count) are element-wise equal, whatever the other fields
\* hold; equality is reflexive, symmetric and transitive.
C1_EqualityByIdentity ==
    /\ \A a, b \in objs : a.cls = b.cls => (Eq(a, b) <=> C1_SameIdentity(a, b))
    /\ \A a \in objs : Eq(a, a)
    /\ \A a, b \in objs : Eq(a, b) => Eq(b, a)
    /\ \A a, b, c \in objs : (Eq(a, b) /\ Eq(b, c)) => Eq(a, c)

C1_Witness ==
    \E a, b, c \in objs :
        /\ a.cls = "GiveawayWinners" /\ b.cls = a.cls /\ c.cls = a.cls
        /\ a.attrs["prize_description"] # b.attrs["prize_description"]
        /\ Eq(a, b)
        /\ a.attrs["winners"] # c.attrs["winners"]
        /\ ~Eq(a, c)

\* C2: once construction returns, an instance of any of the four kinds is
\* frozen, and a field write is rejected with a frozen-state error.
C2_FrozenOnceReturned == Returned => self["_frozen"] = BoolV(TRUE)

\* the fields the claim names as mandatory
C3_Mandatory(c) ==
    CASE c = "Giveaway" -> {"chats", "winners_selection_date", "winner_count"}
      [] c = "GiveawayWinners" ->
            {"chat", "giveaway_message_id", "winners_selection_date",
             "winner_count", "winners"}
      [] c = "GiveawayCompleted" -> {"winner_count"}
      [] c = "GiveawayCreated" -> {}

\* C3: de_json of a dict that lacks a mandatory field of its kind raises a
\* SchemaViolation and returns no instance.
C3_MissingMandatoryRaises ==
    (ViaDeJson /\ pc \in {"constructed", "returned", "raised"}
       /\ ~(C3_Mandatory(cls) \subseteq DOMAIN rawAtCall))
    => (pc = "raised" /\ exc = "SchemaViolation" /\ ret = Pending)

\* the optional scalar and nested-object fields of each kind
C4_Optional(c) ==
    CASE c = "Giveaway" ->
            {"only_new_members", "has_public_winners", "prize_description",
             "premium_subscription_month_count"}
      [] c = "GiveawayWinners" ->
            {"additional_chat_count", "premium_subscription_month_count",
             "unclaimed_prize_count", "only_new_members", "was_refunded",
             "prize_description"}
      [] c = "GiveawayCompleted" -> {"unclaimed_prize_count", "giveaway_message"}
      [] c = "GiveawayCreated" -> {}

\* what the caller gave for key k: through the raw dict or as an argument
C4_Given(k) == IF ViaDeJson THEN Get(rawAtCall, k) ELSE Get(kwargs, k)
C4_Missing(k) == IF ViaDeJson THEN k \notin DOMAIN rawAtCall ELSE k \notin DOMAIN kwargs

\* the input is complete and well-formed but for its optional fields
C4_WellFormed ==
    /\ \A k \in C3_Mandatory(cls) : ~C4_Missing(k)
    /\ ViaDeJson =>
         /\ \A k \in {"chats", "winners"} \cap DOMAIN rawAtCall :
               \A i \in 1..Len(rawAtCall[k].list) : "id" \in DOMAIN rawAtCall[k].list[i].dict
         /\ "chat" \in DOMAIN rawAtCall => "id" \in DOMAIN rawAtCall["chat"].dict
         /\ "giveaway_message" \in DOMAIN rawAtCall
               => "message_id" \in DOMAIN rawAtCall["giveaway_message"].dict
    /\ (~ViaDeJson /\ cls = "Giveaway") => ~IsNone(kwargs["chats"])

\* C4: a call whose input misses an optional field succeeds, the field reads
\* None, and country_codes reads the empty tuple when it is missing, None or
\* empty, and its elements in the given order otherwise.
C4_OptionalFieldsDefault ==
    /\ Returned =>
         /\ \A k \in C4_Optional(cls) : C4_Missing(k) => self[k] = NoneV
         /\ cls = "Giveaway" =>
              /\ IsTuple(self["country_codes"])
              /\ (C4_Missing("country_codes") \/ IsNone(C4_Given("country_codes")))
                    => self["country_codes"].tuple = <<>>
              /\ IsList(C4_Given("country_codes"))
                    => self["country_codes"].tuple = C4_Given("country_codes").list
    /\ pc = "raised" => ~C4_WellFormed

C4_Witness ==
    /\ Returned /\ ViaDeJson /\ cls = "Giveaway"
    /\ C4_Missing("prize_description") /\ C4_Missing("country_codes")
    /\ self["prize_description"] = NoneV
    /\ self["country_codes"] = TupleV(<<>>)

\* the keys a kind declares, and the caller's dict without the others
C5_Declared(c) == Slots(c)
C5_Stripped == Restrict(rawAtCall, C5_Declared(cls))

\* the instance as the call hands it back, before any write by the caller
C5_AsReturned == pc = "constructed" \/ (Returned /\ self["_frozen"] = BoolV(TRUE))

\* C5: keys the kind does not declare never make de_json raise; each is kept
\* with its raw value in api_kwargs, no declared key is, and the declared
\* fields read as they do when the undeclared keys are removed from the input.
C5_UnrecognizedKept ==
    /\ (C5_AsReturned /\ ViaDeJson) =>
         /\ \A k \in DOMAIN rawAtCall \ C5_Declared(cls) :
               /\ k \in DOMAIN self["api_kwargs"].dict
               /\ self["api_kwargs"].dict[k] = rawAtCall[k]
         /\ \A k \in C5_Declared(cls) : k \notin DOMAIN self["api_kwargs"].dict
         /\ IsObj(de_json(cls, C5_Stripped, bot))
         /\ Restrict(self, Slots(cls))
               = Restrict(de_json(cls, C5_Stripped, bot).attrs, Slots(cls))
    /\ (pc = "raised" /\ ViaDeJson) => IsRaise(de_json(cls, C5_Stripped, bot))

C5_Witness ==
    /\ Returned /\ cls = "GiveawayCompleted"
    /\ rawAtCall = [winner_count |-> IntV(3), unclaimed_prize_count |-> IntV(1),
                    future_field |-> StrV("x")]
    /\ self["winner_count"] = IntV(3)
    /\ self["unclaimed_prize_count"] = IntV(1)
    /\ self["api_kwargs"].dict["future_field"] = StrV("x")

\* the tuple under `field` is the raw list hydrated element by element
C6_ElementWise(field, kind) ==
    LET q == Get(rawAtCall, field)
    IN  IsList(q) =>
          /\ Len(self[field].tuple) = Len(q.list)
          /\ \A i \in 1..Len(q.list) :
                self[field].tuple[i] = Nested_de_json(kind, q.list[i], bot)

\* C6: the winners (chats) of a hydrated GiveawayWinners (Giveaway) are the
\* hydrations of the raw elements, one per element and in their order; the
\* chat of GiveawayWinners is the hydration of the raw chat.
C6_NestedInOrder ==
    (Returned /\ ViaDeJson) =>
        /\ cls = "GiveawayWinners" =>
              /\ C6_ElementWise("winners", "User")
              /\ self["chat"] = Nested_de_json("Chat", Get(rawAtCall, "chat"), bot)
        /\ cls = "Giveaway" => C6_ElementWise("chats", "Chat")

C6_Witness ==
    /\ Returned /\ cls = "GiveawayWinners"
    /\ Get(rawAtCall, "chat") = RawChat1
    /\ Get(rawAtCall, "winners") = ListV(<<RawUser1, RawUser2>>)
    /\ self["chat"].attrs["id"] = IntV(1)
    /\ Len(self["winners"].tuple) = 2
    /\ self["winners"].tuple[1].attrs["id"] = IntV(10)
    /\ self["winners"].tuple[2].attrs["id"] = IntV(20)

\* a de_json call that was given None
C7_CalledWithNone ==
    /\ cls \in {"Giveaway", "GiveawayWinners", "GiveawayCompleted"}
    /\ raw = 0
    /\ pc # "idle"
    /\ pc = "parse" \/ (log # <<>> /\ log[1].fn = "_parse_data")

\* C7: de_json(None, bot) of Giveaway, GiveawayWinners and GiveawayCompleted
\* returns None at once: no nested hydrator runs, no timezone default is
\* looked up, nothing is constructed and nothing is raised.
C7_NoneReturnsNone ==
    C7_CalledWithNone =>
        /\ pc \in {"parse", "check", "returned"}
        /\ \A i \in 1..Len(log) : log[i].fn = "_parse_data"
        /\ self = NoneV
        /\ exc = ""
        /\ pc = "returned" => ret = NoneV

C7_Witness ==
    /\ C7_CalledWithNone /\ cls = "GiveawayWinners"
    /\ pc = "returned" /\ ret = NoneV /\ Fns = <<"_parse_data">>

\* C8: de_json leaves the caller's raw dict as it was, whether it returns or
\* raises; the replacements are made on a copy.
C8_RawUnchanged == ViaDeJson => heap[raw] = rawAtCall

C8_Witness ==
    /\ Returned /\ ViaDeJson /\ cls = "Giveaway"
    /\ "chats" \notin DOMAIN rawAtCall
    /\ "winners_selection_date" \in DOMAIN rawAtCall
    /\ "chats" \in DOMAIN heap[data]
    /\ IsDt(heap[data]["winners_selection_date"])
    /\ data # raw

\* the collaborators of each de_json in the order of its statements, and
\* the values a nested field holds once hydrated
C9_Order(c) ==
    CASE c = "Giveaway" ->
            <<"_parse_data", "extract_tzinfo_from_defaults", "Chat.de_list",
              "from_timestamp", "TelegramObject.de_json", "__init__">>
      [] c = "GiveawayWinners" ->
            <<"_parse_data", "extract_tzinfo_from_defaults", "Chat.de_json",
              "User.de_list", "from_timestamp", "TelegramObject.de_json", "__init__">>
      [] c = "GiveawayCompleted" ->
            <<"_parse_data", "Message.de_json", "TelegramObject.de_json", "__init__">>

C9_NestedFns == {"Chat.de_json", "Chat.de_list", "User.de_list", "Message.de_json"}

C9_IsHydrated(v) ==
    \/ IsNone(v) \/ IsObj(v) \/ IsDt(v)
    \/ IsTuple(v) /\ \A i \in 1..Len(v.tuple) : IsObj(v.tuple[i])

C9_NestedKeys(c) ==
    CASE c = "Giveaway" -> {"chats", "winners_selection_date"}
      [] c = "GiveawayWinners" -> {"chat", "winners", "winners_selection_date"}
      [] c = "GiveawayCompleted" -> {"giveaway_message"}

\* C9: in de_json of Giveaway, GiveawayWinners and GiveawayCompleted every
\* nested hydration and the timestamp normalization are done before the
\* constructor starts; a nested failure leaves the call before any
\* constructor runs; the caller gets a complete frozen instance, None or an
\* error, never an instance in the making.
C9_AllOrNothing ==
    (ViaDeJson /\ cls \in {"Giveaway", "GiveawayWinners", "GiveawayCompleted"}) =>
        /\ Len(Fns) <= Len(C9_Order(cls))
        /\ \A i \in 1..Len(Fns) : Fns[i] = C9_Order(cls)[i]
        /\ (\E i \in 1..Len(Fns) : Fns[i] = "__init__") =>
              \A k \in C9_NestedKeys(cls) : k \in DOMAIN kwargs /\ C9_IsHydrated(kwargs[k])
        /\ (pc = "raised" /\ Fns[Len(Fns)] \in C9_NestedFns) =>
              /\ self = NoneV /\ ret = Pending
              /\ \A i \in 1..Len(Fns) : Fns[i] # "__init__"
        /\ pc = "raised" => (ret = Pending /\ self = NoneV)
        /\ pc = "returned" =>
              /\ IsObj(ret) /\ ret.attrs = self
              /\ self["_frozen"] = BoolV(TRUE)
              /\ Slots(cls) \subseteq DOMAIN self
              /\ self["_id_attrs"] # TupleV(<<>>)
        /\ pc \notin {"returned"} => ret = Pending

C9_Witness ==
    /\ ViaDeJson /\ cls = "GiveawayWinners" /\ pc = "raised"
    /\ Fns[Len(Fns)] = "User.de_list"
    /\ "chat" \in DOMAIN rawAtCall
    /\ self = NoneV /\ ret = Pending

\* the timestamp the claim expects for the caller's raw epoch and bot
C10_Expected ==
    LET e == Get(rawAtCall, "winners_selection_date")
    IN  IF IsNone(e) THEN NoneV
        ELSE DtV(e.int, IF bot.defaults_tz = "" THEN "UTC" ELSE bot.defaults_tz)

\* C10: winners_selection_date of a hydrated Giveaway / GiveawayWinners is the
\* raw epoch second with the default timezone of the bot of that call, UTC
\* when the bot has none, and None when the epoch is missing; every nested
\* hydrator of the call gets that same bot.
C10_DateFromContext ==
    (ViaDeJson /\ cls \in {"Giveaway", "GiveawayWinners"}) =>
        /\ (pc = "constructed" \/ Returned) => self["winners_selection_date"] = C10_Expected
        /\ \A i \in 1..Len(log) :
              log[i].fn \in C9_NestedFns \cup {"extract_tzinfo_from_defaults",
                                              "TelegramObject.de_json"}
                 => log[i].bot = bot

C10_Witness ==
    /\ Returned /\ ViaDeJson /\ cls = "Giveaway"
    /\ bot.defaults_tz = "CET"
    /\ self["winners_selection_date"] = DtV(1700000000, "CET")
    /\ \E i \in 1..Len(log) : log[i].fn = "Chat.de_list" /\ log[i].bot = bot

====
